---------------------------- MODULE Spec2Model ----------------------------
(***************************************************************************)
(* A model of lora-captioner: image discovery, the rename plan and its     *)
(* execution, caption generation and the command-line run (main).          *)
(*                                                                         *)
(* Text is a sequence of one-character strings (fixed literals of the code *)
(* are kept as one fragment).  A path is a record [parent, name]; a        *)
(* directory is the sequence of the names leading to it.  The filesystem   *)
(* is a function from the existing paths to their content; a directory is  *)
(* an entry whose content is DirMark.  Names hold no path separator.       *)
(***************************************************************************)
EXTENDS Integers, Sequences, FiniteSets, TLC

VARIABLES
    fs,                \* existing directory entries: path -> content
    fs0,               \* the filesystem when the run (or call) started
    entry,             \* what was called: "main" or a library function
    pc,                \* position of the run
    dataset_name, lora_type, trigger_word, output_arg, no_rename, dry_run,
    recursive, model,  \* the arguments of main / of the library call
    output_path,       \* main: the resolved output directory
    images,            \* main: the image list (discovered, then renamed)
    mappings,          \* the rename plan: sequence of <<original, new>>
    ri,                \* rename_images: number of mappings already handled
    new_paths,         \* rename_images: the list it builds and returns
    raised,            \* the exception that ended the call or run ("" = none)
    log_written,       \* main: create_rename_log was called
    loaded,            \* main: load_model was called
    invoked,           \* model invocations, in order:
                       \*   <<image, instruction, "ok" or "raise">>
    ci,                \* caption loop: number of images already handled
    captions_generated,\* main: counter of caption files written
    errors,            \* main: the errors list, <<image, message>>
    results,           \* captions produced: <<image, raw output, caption>>
    runs               \* earlier runs of the same command on this directory

vars == <<fs, fs0, entry, pc, dataset_name, lora_type, trigger_word,
          output_arg, no_rename, dry_run, recursive, model, output_path,
          images, mappings, ri, new_paths, raised, log_written, loaded,
          invoked, ci, captions_generated, errors, results, runs>>

(***************************************************************************)
(* Bounds of the model.                                                    *)
(***************************************************************************)
MaxFiles == 3          \* directory entries present when a run starts
MaxOutputs == 1        \* distinct raw model outputs tried per image in a run

(***************************************************************************)
(* Text: characters, ordering, case.                                       *)
(***************************************************************************)
\* The characters the model uses, in code-point order (str comparison).
Alphabet ==
    <<" ", "'", ",", "-", ".", "0", "1", "2", "3", "4", "5", "6", "7", "8",
      "9", ":", ">", "A", "B", "G", "J", "P", "[", "]", "_", "a", "b", "c",
      "d", "e", "g", "j", "n", "o", "p", "s", "t", "w", "x", "{", "}">>

Ord(c) == CHOOSE i \in 1..Len(Alphabet) : Alphabet[i] = c

UpperCase == <<"A", "B", "G", "J", "P">>
LowerCase == <<"a", "b", "g", "j", "p">>

\* str.lower() on one character
LowerChar(c) ==
    IF \E i \in 1..Len(UpperCase) : UpperCase[i] = c
    THEN LowerCase[CHOOSE i \in 1..Len(UpperCase) : UpperCase[i] = c]
    ELSE c

\* str.lower()
Lower(s) == [i \in 1..Len(s) |-> LowerChar(s[i])]

\* s < t for str (lexicographic by code point)
RECURSIVE StrLess(_, _)
StrLess(s, t) ==
    IF t = <<>> THEN FALSE
    ELSE IF s = <<>> THEN TRUE
    ELSE IF s[1] # t[1] THEN Ord(s[1]) < Ord(t[1])
    ELSE StrLess(Tail(s), Tail(t))

Whitespace == {" ", "\n", "\t"}

\* str.strip()
RECURSIVE LStrip(_)
LStrip(s) ==
    IF s # <<>> /\ s[1] \in Whitespace THEN LStrip(Tail(s)) ELSE s

RECURSIVE RStrip(_)
RStrip(s) ==
    IF s # <<>> /\ s[Len(s)] \in Whitespace
    THEN RStrip(SubSeq(s, 1, Len(s) - 1)) ELSE s

Strip(s) == RStrip(LStrip(s))

\* The decimal digits of a natural number.
DigitChars == <<"0", "1", "2", "3", "4", "5", "6", "7", "8", "9">>

RECURSIVE Decimal(_)
Decimal(n) ==
    IF n < 10 THEN <<DigitChars[n + 1]>>
    ELSE Decimal(n \div 10) \o <<DigitChars[(n % 10) + 1]>>

RECURSIVE ZeroPad(_, _)
ZeroPad(s, width) == IF Len(s) >= width THEN s ELSE ZeroPad(<<"0">> \o s, width)

\* f"{i:04d}"
Format04d(i) == ZeroPad(Decimal(i), 4)

(***************************************************************************)
(* pathlib.                                                                *)
(***************************************************************************)
\* None where a str is optional, and None where a directory is optional
None == <<"<None>">>
NoneDir == << <<"<None>">> >>

Path(d, n) == [parent |-> d, name |-> n]

\* str.rfind("."), 1-based, 0 when absent
RECURSIVE RFindDot(_)
RFindDot(s) ==
    IF s = <<>> THEN 0
    ELSE IF s[Len(s)] = "." THEN Len(s)
    ELSE RFindDot(SubSeq(s, 1, Len(s) - 1))

\* PurePath.suffix: the last dot-component of the name, unless the dot is
\* the first or the last character
Suffix(n) ==
    LET i == RFindDot(n)
    IN  IF 1 < i /\ i < Len(n) THEN SubSeq(n, i, Len(n)) ELSE <<>>

\* PurePath.stem
Stem(n) == SubSeq(n, 1, Len(n) - Len(Suffix(n)))

\* PurePath.with_suffix
WithSuffix(p, suffix) == Path(p.parent, Stem(p.name) \o suffix)

\* Path.exists()
Exists(f, p) == p \in DOMAIN f

DirMark == <<"<DIR>">>

\* Path.is_file()
IsFile(f, p) == Exists(f, p) /\ f[p] # DirMark

\* d is dir or below it
IsUnder(d, dir) == Len(d) >= Len(dir) /\ SubSeq(d, 1, Len(dir)) = dir

\* a rename that copies: the entry stays at its old path too
RenameKeepingOriginal(f, original, new) ==
    [p \in DOMAIN f \cup {new} |-> IF p = new THEN f[original] ELSE f[p]]

\* Path.rename(): the entry moves; renaming a path onto itself changes nothing
Rename(f, original, new) ==
    IF original = new THEN f
    ELSE [p \in (DOMAIN f \ {original}) \cup {new} |->
             IF p = new THEN f[original] ELSE f[p]]

\* Path.write_text(): creates or overwrites
WriteText(f, p, text) ==
    [q \in DOMAIN f \cup {p} |-> IF q = p THEN text ELSE f[q]]

\* Path.is_dir() of a directory given by its components
DirExists(f, d) ==
    \/ d = <<>>
    \/ LET p == Path(SubSeq(d, 1, Len(d) - 1), d[Len(d)])
       IN  Exists(f, p) /\ f[p] = DirMark

\* Path.mkdir(parents=True, exist_ok=True) for a directory below the root
Mkdir(f, d) ==
    IF DirExists(f, d) THEN f
    ELSE WriteText(f, Path(SubSeq(d, 1, Len(d) - 1), d[Len(d)]), DirMark)

(***************************************************************************)
(* image_processor.py                                                      *)
(***************************************************************************)
SUPPORTED_EXTENSIONS ==
    { <<".", "j", "p", "g">>, <<".", "j", "p", "e", "g">>,
      <<".", "p", "n", "g">>, <<".", "w", "e", "b", "p">>,
      <<".", "b", "m", "p">>, <<".", "g", "i", "f">>,
      <<".", "t", "i", "f", "f">>, <<".", "t", "i", "f">> }

\* input_dir.glob("*") / input_dir.glob("**/*"): the entries it yields
Glob(f, input_dir, rec) ==
    {p \in DOMAIN f :
        IF rec THEN IsUnder(p.parent, input_dir) ELSE p.parent = input_dir}

\* the entries discover_images keeps (line 35)
IsSupportedImage(f, p) ==
    IsFile(f, p) /\ Lower(Suffix(p.name)) \in SUPPORTED_EXTENSIONS

\* the sort key of line 39
SortKey(p) == Lower(p.name)

\* list.sort(key=...) is stable: an element goes after every element whose
\* key is not greater than its own
RECURSIVE InsertByKey(_, _)
InsertByKey(sorted, p) ==
    IF sorted = <<>> THEN <<p>>
    ELSE IF StrLess(SortKey(p), SortKey(sorted[1])) THEN <<p>> \o sorted
    ELSE <<sorted[1]>> \o InsertByKey(Tail(sorted), p)

RECURSIVE SortByKey(_)
SortByKey(s) ==
    IF s = <<>> THEN <<>>
    ELSE InsertByKey(SortByKey(SubSeq(s, 1, Len(s) - 1)), s[Len(s)])

\* The orders in which the operating system may enumerate a set of entries.
RECURSIVE Enumerations(_)
Enumerations(S) ==
    IF S = {} THEN {<<>>}
    ELSE UNION {{<<x>> \o e : e \in Enumerations(S \ {x})} : x \in S}

\* The orders in which glob may yield the entries, up to the places of the
\* entries line 35 drops (which do not change what discover_images builds).
Listings(f, input_dir, rec) ==
    Enumerations({p \in Glob(f, input_dir, rec) : IsSupportedImage(f, p)})

\* discover_images, given the order enum in which glob yields the entries
discover_images(f, enum) ==
    SortByKey(SelectSeq(enum, LAMBDA p : IsSupportedImage(f, p)))

\* generate_new_names with enumerate() left at its default start, 0
generate_new_names_from0(image_paths, ds_name, output_dir) ==
    [i \in 1..Len(image_paths) |->
        LET original_path == image_paths[i]
            extension == Lower(Suffix(original_path.name))
            new_name == ds_name \o <<"_">> \o Format04d(i - 1) \o extension
        IN  <<original_path,
              IF output_dir # NoneDir THEN Path(output_dir, new_name)
              ELSE Path(original_path.parent, new_name)>>]

\* generate_new_names naming a file after its own stem, not its position
generate_new_names_by_stem(image_paths, ds_name, output_dir) ==
    [i \in 1..Len(image_paths) |->
        LET original_path == image_paths[i]
            extension == Lower(Suffix(original_path.name))
            new_name == ds_name \o <<"_">> \o Lower(Stem(original_path.name))
                        \o extension
        IN  <<original_path,
              IF output_dir # NoneDir THEN Path(output_dir, new_name)
              ELSE Path(original_path.parent, new_name)>>]

\* generate_new_names
generate_new_names(image_paths, ds_name, output_dir) ==
    [i \in 1..Len(image_paths) |->
        LET original_path == image_paths[i]
            extension == Lower(Suffix(original_path.name))
            new_name == ds_name \o <<"_">> \o Format04d(i) \o extension
        IN  <<original_path,
              IF output_dir # NoneDir THEN Path(output_dir, new_name)
              ELSE Path(original_path.parent, new_name)>>]

\* rename_images refusing every target that exists, the original included
TargetExistsOrSelf(f, original, new) == Exists(f, new)

\* rename_images without the check of line 97
TargetExistsUnchecked(f, original, new) == FALSE

\* rename_images line 97: the target exists and is not the original itself
TargetExists(f, original, new) == Exists(f, new) /\ new # original

\* write_caption_file line 125
CaptionPath(image_path) == WithSuffix(image_path, <<".", "t", "x", "t">>)

\* create_rename_log: lines 175-185
LogPath(output_dir) == Path(output_dir, <<"rename_log.txt">>)

RECURSIVE LogLines(_)
LogLines(ms) ==
    IF ms = <<>> THEN <<>>
    ELSE ms[1][1].name \o <<" -> ">> \o ms[1][2].name \o <<"\n">>
         \o LogLines(Tail(ms))

LogText(ms) == <<"# Original Name -> New Name\n">> \o LogLines(ms)

(***************************************************************************)
(* captioner.py                                                            *)
(***************************************************************************)
LoRATypes == {"character", "style", "concept"}

BLIP_PROMPTS ==
    [t \in LoRATypes |->
        CASE t = "character" -> "a photo of"
          [] t = "style"     -> "an image of"
          [] t = "concept"   -> "a picture showing"]

FLORENCE_INSTRUCTIONS ==
    [t \in LoRATypes |->
        CASE t = "character" -> "<MORE_DETAILED_CAPTION>"
          [] t = "style"     -> "<GENERATE_TAGS>"
          [] t = "concept"   -> "<DETAILED_CAPTION>"]

\* dict.get(key, default)
DictGet(d, key, default) == IF key \in DOMAIN d THEN d[key] ELSE default

\* get_blip_prompt falling back to the first entry of the table
get_blip_prompt_first(lt) ==
    DictGet(BLIP_PROMPTS, lt, BLIP_PROMPTS["character"])

get_blip_prompt(lt) == DictGet(BLIP_PROMPTS, lt, BLIP_PROMPTS["style"])

get_florence_instruction(lt) ==
    DictGet(FLORENCE_INSTRUCTIONS, lt, FLORENCE_INSTRUCTIONS["style"])

\* What the model collaborator hands back for one image.  For BLIP it is the
\* decoded text.  For Florence-2 it is the value post_process_generation
\* returns: a dict with one entry key -> value (isdict), or a bare value; a
\* value is a str or a one-element list of str (islist).
RawStr(text) ==
    [isdict |-> FALSE, key |-> "", islist |-> FALSE, text |-> text]
RawList(text) ==
    [isdict |-> FALSE, key |-> "", islist |-> TRUE, text |-> text]
RawDict(key, text) ==
    [isdict |-> TRUE, key |-> key, islist |-> FALSE, text |-> text]
RawDictList(key, text) ==
    [isdict |-> TRUE, key |-> key, islist |-> TRUE, text |-> text]

\* repr() of a str that holds no quote: quoted, control characters escaped
RECURSIVE Escaped(_)
Escaped(text) ==
    IF text = <<>> THEN <<>>
    ELSE (CASE text[1] = "\n" -> <<"\\", "n">>
            [] text[1] = "\t" -> <<"\\", "t">>
            [] OTHER          -> <<text[1]>>) \o Escaped(Tail(text))

Repr(text) == <<"'">> \o Escaped(text) \o <<"'">>

\* str(x) of a str value or of a one-element list of str
StrOfValue(islist, text) ==
    IF islist THEN <<"[">> \o Repr(text) \o <<"]">> ELSE text

\* _caption_with_blip: lines 109-110
caption_with_blip(raw) == Strip(raw.text)

\* _caption_with_florence: lines 146-152
caption_with_florence(raw, instruction) ==
    LET caption ==
            IF raw.isdict
            THEN IF raw.key = instruction
                 THEN StrOfValue(raw.islist, raw.text)
                 ELSE <<>>
            ELSE StrOfValue(raw.islist, raw.text)
    IN  Strip(caption)

\* str.lower() on a model type
LowerModelType(mt) ==
    CASE mt = "FLORENCE" -> "florence"
      [] mt = "BLIP"     -> "blip"
      [] OTHER           -> mt

\* the truth value of an optional str
Truthy(s) == s # None /\ s # <<>>

\* caption_image testing the trigger word against None only
caption_image_unless_none(raw, lt, tw, mt) ==
    LET caption ==
            IF LowerModelType(mt) = "florence"
            THEN caption_with_florence(raw, get_florence_instruction(lt))
            ELSE caption_with_blip(raw)
    IN  IF tw # None THEN tw \o <<",", " ">> \o caption ELSE caption

\* caption_image, given what the model returns for the image
caption_image(raw, lt, tw, mt) ==
    LET caption ==
            IF LowerModelType(mt) = "florence"
            THEN caption_with_florence(raw, get_florence_instruction(lt))
            ELSE caption_with_blip(raw)
    IN  IF Truthy(tw) THEN tw \o <<",", " ">> \o caption ELSE caption

\* the prompt or instruction _caption_with_blip / _caption_with_florence
\* hands to the processor (lines 89, 115)
SelectedInstruction(mt, lt) ==
    IF LowerModelType(mt) = "florence"
    THEN get_florence_instruction(lt)
    ELSE get_blip_prompt(lt)

\* The raw outputs the model collaborator may produce, most usual first.
CatText == <<" ", "c", "a", "t", "\n">>

RawOutputs(mt, lt) ==
    IF LowerModelType(mt) = "florence"
    THEN <<RawDict(get_florence_instruction(lt), CatText),
           RawStr(CatText),
           RawDict("<OD>", CatText),
           RawDictList(get_florence_instruction(lt), CatText)>>
    ELSE <<RawStr(CatText), RawStr(<<"a", " ", "c", "a", "t">>)>>

(***************************************************************************)
(* The directories and the files a run may find.                           *)
(***************************************************************************)
In  == << <<"i", "n">> >>
Sub == << <<"i", "n">>, <<"s", "u", "b">> >>
Out == << <<"o", "u", "t">> >>

OutEntry == Path(<<>>, <<"o", "u", "t">>)

Image(k) == <<"<IMG>", k>>

\* Always there: the input directory and a subdirectory of it.
BaseEntries ==
    (Path(<<>>, <<"i", "n">>) :> DirMark)
    @@ (Path(In, <<"s", "u", "b">>) :> DirMark)

\* May be there when the run starts.
OptionalEntries ==
    (Path(In, <<"a", ".", "J", "P", "G">>) :> Image("1"))
    @@ (Path(In, <<"A", ".", "p", "n", "g">>) :> Image("2"))
    @@ (Path(In, <<"A", ".", "j", "p", "g">>) :> Image("3"))
    @@ (Path(Sub, <<"a", ".", "J", "P", "G">>) :> Image("4"))
    @@ (Path(In, <<"d", "s", "_", "0", "0", "0", "2", ".", "p", "n", "g">>)
            :> Image("5"))
    @@ (Path(In, <<"d", "s", "_", "0", "0", "0", "1", ".", "t", "x", "t">>)
            :> <<"o", "l", "d">>)
    @@ (Path(In, <<"d", "s", "_", "0", "0", "0", "1", ".", "j", "p", "g">>)
            :> DirMark)
    @@ (OutEntry :> DirMark)

InitialFilesystems ==
    {BaseEntries @@ [p \in S |-> OptionalEntries[p]] :
        S \in {T \in SUBSET DOMAIN OptionalEntries :
                 /\ Cardinality(T) <= MaxFiles
                 /\ \A p \in T : p.parent = Out => OutEntry \in T}}

DatasetNames == {<<"d", "s">>}
TriggerWords == {None, <<>>, <<"t", "w">>}
ModelTypes == {"florence", "blip"}

(***************************************************************************)
(* cli.py: main.                                                           *)
(***************************************************************************)
\* What no call has touched yet.
InitLocals ==
    /\ fs0 = fs
    /\ output_path = NoneDir
    /\ mappings = <<>>
    /\ ri = 0
    /\ new_paths = <<>>
    /\ raised = ""
    /\ log_written = FALSE
    /\ loaded = FALSE
    /\ invoked = <<>>
    /\ ci = 0
    /\ captions_generated = 0
    /\ errors = <<>>
    /\ results = <<>>
    /\ runs = 0

\* The command line: lines 23-96.
InitMain ==
    /\ fs \in InitialFilesystems
    /\ entry = "main"
    /\ pc = "main"
    /\ dataset_name \in DatasetNames
    /\ lora_type \in LoRATypes
    /\ trigger_word \in {None, <<"t", "w">>}
    /\ output_arg \in {NoneDir, Out}
    /\ no_rename \in BOOLEAN
    /\ dry_run \in BOOLEAN
    /\ recursive \in BOOLEAN
    /\ model \in ModelTypes
    /\ images = <<>>
    /\ InitLocals

args == <<entry, dataset_name, lora_type, trigger_word, output_arg, no_rename,
          dry_run, recursive, model, runs>>

\* main creating the output directory in a dry run too
MainSetOutputAlways ==
    /\ pc = "main"
    /\ IF output_arg = NoneDir
       THEN output_path' = In /\ fs' = fs
       ELSE output_path' = output_arg /\ fs' = Mkdir(fs, output_arg)
    /\ pc' = "discover"
    /\ UNCHANGED <<fs0, args, images, mappings, ri, new_paths, raised,
                   log_written, loaded, invoked, ci, captions_generated,
                   errors, results>>

\* lines 117-123: the output directory
MainSetOutput ==
    /\ pc = "main"
    /\ IF output_arg = NoneDir
       THEN output_path' = In /\ fs' = fs
       ELSE /\ output_path' = output_arg
            /\ fs' = IF ~dry_run THEN Mkdir(fs, output_arg) ELSE fs
    /\ pc' = "discover"
    /\ UNCHANGED <<fs0, args, images, mappings, ri, new_paths, raised,
                   log_written, loaded, invoked, ci, captions_generated,
                   errors, results>>

\* lines 125-134: step 1
MainDiscover ==
    /\ pc = "discover"
    /\ images' \in {discover_images(fs, enum) :
                        enum \in Listings(fs, In, recursive)}
    /\ IF images' = <<>>
       THEN pc' = "exit" /\ raised' = "SystemExit(1)"
       ELSE pc' = "plan" /\ raised' = raised
    /\ UNCHANGED <<fs, fs0, args, output_path, mappings, ri, new_paths,
                   log_written, loaded, invoked, ci, captions_generated,
                   errors, results>>

\* lines 137-145, 154-155: step 2, up to the call of rename_images
MainPlan ==
    /\ pc = "plan"
    /\ IF no_rename
       THEN mappings' = mappings /\ pc' = "load"
       ELSE /\ mappings' = generate_new_names(images, dataset_name, output_path)
            /\ pc' = IF dry_run THEN "load" ELSE "rename"
    /\ UNCHANGED <<fs, fs0, args, output_path, images, ri, new_paths, raised,
                   log_written, loaded, invoked, ci, captions_generated,
                   errors, results>>

\* rename_images, one iteration of its loop with dry_run=False, the target
\* free: lines 92-102
RenameOne ==
    /\ ri < Len(mappings)
    /\ LET original == mappings[ri + 1][1]
           new == mappings[ri + 1][2]
       IN  /\ ~TargetExists(fs, original, new)
           /\ Exists(fs, original)
           /\ DirExists(fs, new.parent)
           /\ fs' = Rename(fs, original, new)
           /\ new_paths' = Append(new_paths, new)
    /\ ri' = ri + 1

\* rename_images, the iteration that raises: line 98, or Path.rename failing
\* on a missing source or a missing target directory
RenameRaises ==
    /\ ri < Len(mappings)
    /\ LET original == mappings[ri + 1][1]
           new == mappings[ri + 1][2]
       IN  raised' = IF TargetExists(fs, original, new) THEN "FileExistsError"
                     ELSE IF ~Exists(fs, original) \/ ~DirExists(fs, new.parent)
                     THEN "FileNotFoundError"
                     ELSE ""
    /\ raised' # ""

\* line 148, an iteration of rename_images that succeeds
MainRenameOne ==
    /\ pc = "rename"
    /\ RenameOne
    /\ UNCHANGED <<fs0, pc, args, output_path, images, mappings, raised,
                   log_written, loaded, invoked, ci, captions_generated,
                   errors, results>>

\* line 148, rename_images raises; lines 151-153 for FileExistsError, and any
\* other exception ends the run as well
MainRenameRaises ==
    /\ pc = "rename"
    /\ RenameRaises
    /\ pc' = "exit"
    /\ UNCHANGED <<fs, fs0, args, output_path, images, mappings, ri,
                   new_paths, log_written, loaded, invoked, ci,
                   captions_generated, errors, results>>

\* lines 148-150: rename_images returns, create_rename_log
MainRenamed ==
    /\ pc = "rename"
    /\ ri = Len(mappings)
    /\ images' = new_paths
    /\ fs' = WriteText(fs, LogPath(output_path), LogText(mappings))
    /\ log_written' = TRUE
    /\ pc' = "load"
    /\ UNCHANGED <<fs0, args, output_path, mappings, ri, new_paths, raised,
                   invoked, ci, captions_generated, errors, loaded, results>>

\* lines 160-176: step 3, the model loads
MainLoadModel ==
    /\ pc = "load"
    /\ ~dry_run
    /\ loaded' = TRUE
    /\ pc' = "caption"
    /\ UNCHANGED <<fs, fs0, args, output_path, images, mappings, ri,
                   new_paths, raised, log_written, invoked, ci,
                   captions_generated, errors, results>>

\* lines 171-176: load_model raises
MainLoadFails ==
    /\ pc = "load"
    /\ ~dry_run
    /\ raised' = "SystemExit(1)"
    /\ pc' = "exit"
    /\ UNCHANGED <<fs, fs0, args, output_path, images, mappings, ri,
                   new_paths, log_written, loaded, invoked, ci,
                   captions_generated, errors, results>>

\* lines 177-179: dry run, no model
MainSkipLoad ==
    /\ pc = "load"
    /\ dry_run
    /\ pc' = "caption"
    /\ UNCHANGED <<fs, fs0, args, output_path, images, mappings, ri,
                   new_paths, raised, log_written, loaded, invoked, ci,
                   captions_generated, errors, results>>

\* lines 189-193, 210-212: one image of a dry run
MainCaptionDry ==
    /\ pc = "caption"
    /\ ci < Len(images)
    /\ dry_run
    /\ ci' = ci + 1
    /\ UNCHANGED <<fs, fs0, pc, args, output_path, images, mappings, ri,
                   new_paths, raised, log_written, loaded, invoked,
                   captions_generated, errors, results>>

\* lines 195-204, 210-218: one image, caption_image returns
MainCaptionOne ==
    /\ pc = "caption"
    /\ ci < Len(images)
    /\ ~dry_run
    /\ LET image_path == images[ci + 1]
           outs == RawOutputs(model, lora_type)
       IN  \E k \in 1..MaxOutputs :
             /\ k <= Len(outs)
             /\ LET caption == caption_image(outs[k], lora_type,
                                             trigger_word, model)
                    caption_path == CaptionPath(image_path)
                IN  IF Exists(fs, caption_path) /\ ~IsFile(fs, caption_path)
                    THEN /\ errors' = Append(errors, <<image_path, "Write error">>)
                         /\ UNCHANGED <<fs, captions_generated>>
                    ELSE /\ fs' = WriteText(fs, caption_path, caption)
                         /\ captions_generated' = captions_generated + 1
                         /\ errors' = errors
             /\ results' = Append(results, <<image_path, outs[k],
                               caption_image(outs[k], lora_type,
                                             trigger_word, model)>>)
             /\ invoked' = Append(invoked,
                    <<image_path, SelectedInstruction(model, lora_type), "ok">>)
    /\ ci' = ci + 1
    /\ UNCHANGED <<fs0, pc, args, output_path, images, mappings, ri,
                   new_paths, raised, log_written, loaded>>

\* main letting the exception of caption_image end the run
MainCaptionFailsAborts ==
    /\ pc = "caption"
    /\ ci < Len(images)
    /\ ~dry_run
    /\ errors' = Append(errors, <<images[ci + 1], "inference">>)
    /\ invoked' = Append(invoked,
           <<images[ci + 1], SelectedInstruction(model, lora_type), "raise">>)
    /\ pc' = "exit"
    /\ UNCHANGED <<fs, fs0, args, output_path, images, mappings, ri,
                   new_paths, raised, log_written, loaded, ci,
                   captions_generated, results>>

\* lines 195-207: one image, caption_image raises
MainCaptionFails ==
    /\ pc = "caption"
    /\ ci < Len(images)
    /\ ~dry_run
    /\ errors' = Append(errors, <<images[ci + 1], "inference">>)
    /\ invoked' = Append(invoked,
           <<images[ci + 1], SelectedInstruction(model, lora_type), "raise">>)
    /\ ci' = ci + 1
    /\ UNCHANGED <<fs, fs0, pc, args, output_path, images, mappings, ri,
                   new_paths, raised, log_written, loaded,
                   captions_generated, results>>

\* lines 220-237: the summary
MainSummary ==
    /\ pc = "caption"
    /\ ci = Len(images)
    /\ pc' = "done"
    /\ UNCHANGED <<fs, fs0, args, output_path, images, mappings, ri,
                   new_paths, raised, log_written, loaded, invoked, ci,
                   captions_generated, errors, results>>

(***************************************************************************)
(* The library called directly, as the tests do: generate_new_names and    *)
(* then rename_images on a list of existing files, in any order.           *)
(***************************************************************************)
Files(f) == {p \in DOMAIN f : IsFile(f, p)}

ExistingDirs(f) == {d \in {In, Sub, Out} : DirExists(f, d)}

LibDatasetNames == {<<"d", "s">>, <<"x", ".", "y">>}

InitRename ==
    /\ fs \in InitialFilesystems
    /\ entry = "rename_images"
    /\ pc = "generate_new_names"
    /\ images \in UNION {Enumerations(S) : S \in SUBSET Files(fs) \ {{}}}
    /\ dataset_name \in LibDatasetNames
    /\ output_arg \in {NoneDir} \cup ExistingDirs(fs)
    /\ dry_run \in BOOLEAN
    /\ lora_type = "style"
    /\ trigger_word = None
    /\ no_rename = FALSE
    /\ recursive = FALSE
    /\ model = "blip"
    /\ InitLocals

\* generate_new_names(image_paths, dataset_name, output_dir)
LibPlan ==
    /\ pc = "generate_new_names"
    /\ mappings' = generate_new_names(images, dataset_name, output_arg)
    /\ pc' = "rename_images"
    /\ UNCHANGED <<fs, fs0, args, output_path, images, ri, new_paths, raised,
                   log_written, loaded, invoked, ci, captions_generated,
                   errors, results>>

\* rename_images(mappings, dry_run=False): an iteration that succeeds
LibRenameOne ==
    /\ pc = "rename_images"
    /\ ~dry_run
    /\ RenameOne
    /\ UNCHANGED <<fs0, pc, args, output_path, images, mappings, raised,
                   log_written, loaded, invoked, ci, captions_generated,
                   errors, results>>

\* rename_images(mappings, dry_run=True): an iteration, lines 93-94, 102
LibRenameDry ==
    /\ pc = "rename_images"
    /\ dry_run
    /\ ri < Len(mappings)
    /\ new_paths' = Append(new_paths, mappings[ri + 1][2])
    /\ ri' = ri + 1
    /\ UNCHANGED <<fs, fs0, pc, args, output_path, images, mappings, raised,
                   log_written, loaded, invoked, ci, captions_generated,
                   errors, results>>

\* rename_images(mappings, dry_run=False): the iteration that raises
LibRenameRaises ==
    /\ pc = "rename_images"
    /\ ~dry_run
    /\ RenameRaises
    /\ pc' = "raised"
    /\ UNCHANGED <<fs, fs0, args, output_path, images, mappings, ri,
                   new_paths, log_written, loaded, invoked, ci,
                   captions_generated, errors, results>>

\* rename_images: line 104
LibRenameReturn ==
    /\ pc = "rename_images"
    /\ ri = Len(mappings)
    /\ pc' = "returned"
    /\ UNCHANGED <<fs, fs0, args, output_path, images, mappings, ri,
                   new_paths, raised, log_written, loaded, invoked, ci,
                   captions_generated, errors, results>>

(***************************************************************************)
(* The library called directly: caption_image on one image, caption_batch  *)
(* on a list.                                                              *)
(***************************************************************************)
InitCaption ==
    /\ fs \in InitialFilesystems
    /\ entry \in {"caption_image", "caption_batch"}
    /\ pc = entry
    /\ images \in {discover_images(fs, enum) : enum \in Listings(fs, In, TRUE)}
    /\ images # <<>>
    /\ lora_type \in LoRATypes \cup {"other"}
    /\ trigger_word \in TriggerWords
    \* caption_batch has no model_type parameter
    /\ model \in IF entry = "caption_batch" THEN {"blip"}
                 ELSE ModelTypes \cup {"FLORENCE"}
    /\ dataset_name = <<"d", "s">>
    /\ output_arg = NoneDir
    /\ dry_run = FALSE
    /\ no_rename = FALSE
    /\ recursive = TRUE
    /\ InitLocals

\* caption_image(images[1], ..., lora_type, trigger_word, model_type) returns
LibCaptionImage ==
    /\ pc = "caption_image"
    /\ LET outs == RawOutputs(model, lora_type)
       IN  \E k \in 1..Len(outs) :
              results' = Append(results,
                  <<images[1], outs[k],
                    caption_image(outs[k], lora_type, trigger_word, model)>>)
    /\ invoked' = Append(invoked,
           <<images[1], SelectedInstruction(model, lora_type), "ok">>)
    /\ pc' = "returned"
    /\ UNCHANGED <<fs, fs0, args, output_path, images, mappings, ri,
                   new_paths, raised, log_written, loaded, ci,
                   captions_generated, errors>>

\* caption_image raises: the image cannot be opened or the model fails
LibCaptionImageRaises ==
    /\ pc = "caption_image"
    /\ raised' = "Exception"
    /\ invoked' = Append(invoked,
           <<images[1], SelectedInstruction(model, lora_type), "raise">>)
    /\ pc' = "raised"
    /\ UNCHANGED <<fs, fs0, args, output_path, images, mappings, ri,
                   new_paths, log_written, loaded, ci, captions_generated,
                   errors, results>>

\* The caption caption_batch records for an image whose captioning raised.
ErrorCaption == <<"ERROR: ">>

\* caption_batch: one iteration, caption_image returns (lines 183-187); the
\* call passes no model_type, so caption_image takes its default, "blip"
BatchOne ==
    /\ pc = "caption_batch"
    /\ ci < Len(images)
    /\ LET outs == RawOutputs("blip", lora_type)
       IN  \E k \in 1..Len(outs) :
              results' = Append(results,
                  <<images[ci + 1], outs[k],
                    caption_image(outs[k], lora_type, trigger_word, "blip")>>)
    /\ invoked' = Append(invoked,
           <<images[ci + 1], SelectedInstruction("blip", lora_type), "ok">>)
    /\ ci' = ci + 1
    /\ UNCHANGED <<fs, fs0, pc, args, output_path, images, mappings, ri,
                   new_paths, raised, log_written, loaded,
                   captions_generated, errors>>

\* caption_batch: one iteration, caption_image raises (lines 188-190)
BatchFails ==
    /\ pc = "caption_batch"
    /\ ci < Len(images)
    /\ results' = Append(results, <<images[ci + 1], RawStr(<<>>), ErrorCaption>>)
    /\ invoked' = Append(invoked,
           <<images[ci + 1], SelectedInstruction("blip", lora_type), "raise">>)
    /\ ci' = ci + 1
    /\ UNCHANGED <<fs, fs0, pc, args, output_path, images, mappings, ri,
                   new_paths, raised, log_written, loaded,
                   captions_generated, errors>>

\* caption_batch: line 195
BatchReturn ==
    /\ pc = "caption_batch"
    /\ ci = Len(images)
    /\ pc' = "returned"
    /\ UNCHANGED <<fs, fs0, args, output_path, images, mappings, ri,
                   new_paths, raised, log_written, loaded, invoked, ci,
                   captions_generated, errors, results>>

(***************************************************************************)
(* rename_images called on a plan written by hand: any short list of       *)
(* <<original, new>> over a few paths, existing or not.                    *)
(***************************************************************************)
MaxPlan == 2           \* mappings of a plan written by hand

PlanPaths ==
    { Path(In, <<"a", ".", "J", "P", "G">>),
      Path(In, <<"d", "s", "_", "0", "0", "0", "1", ".", "j", "p", "g">>),
      Path(In, <<"d", "s", "_", "0", "0", "0", "2", ".", "p", "n", "g">>) }

RECURSIVE PlansOfLength(_)
PlansOfLength(n) ==
    IF n = 0 THEN {<<>>}
    ELSE {Append(plan, <<original, new>>) :
             plan \in PlansOfLength(n - 1),
             original \in PlanPaths, new \in PlanPaths}

InitRenamePlan ==
    /\ fs \in {f \in InitialFilesystems :
                 DOMAIN f \subseteq DOMAIN BaseEntries \cup PlanPaths}
    /\ entry = "rename_images(plan)"
    /\ pc = "rename_images"
    /\ \E n \in 1..MaxPlan : mappings \in PlansOfLength(n)
    /\ images = [i \in 1..Len(mappings) |-> mappings[i][1]]
    /\ dataset_name = <<"d", "s">>
    /\ output_arg = NoneDir
    /\ dry_run = FALSE
    /\ lora_type = "style"
    /\ trigger_word = None
    /\ no_rename = FALSE
    /\ recursive = FALSE
    /\ model = "blip"
    /\ fs0 = fs
    /\ output_path = NoneDir
    /\ ri = 0
    /\ new_paths = <<>>
    /\ raised = ""
    /\ log_written = FALSE
    /\ loaded = FALSE
    /\ invoked = <<>>
    /\ ci = 0
    /\ captions_generated = 0
    /\ errors = <<>>
    /\ results = <<>>
    /\ runs = 0

(***************************************************************************)
(* The rename pipeline run on a directory in place, and run again on what  *)
(* it left: discover_images, generate_new_names into the input directory,  *)
(* rename_images.                                                          *)
(***************************************************************************)
InitPipeline ==
    /\ fs \in InitialFilesystems
    /\ entry = "pipeline"
    /\ pc = "discover_images"
    /\ images = <<>>
    /\ dataset_name \in LibDatasetNames
    /\ output_arg = In
    /\ recursive \in BOOLEAN
    /\ dry_run = FALSE
    /\ lora_type = "style"
    /\ trigger_word = None
    /\ no_rename = FALSE
    /\ model = "blip"
    /\ InitLocals

\* discover_images(input_dir, recursive)
PipelineDiscover ==
    /\ entry = "pipeline"
    /\ pc = "discover_images"
    /\ images' \in {discover_images(fs, enum) :
                        enum \in Listings(fs, In, recursive)}
    /\ pc' = "generate_new_names"
    /\ UNCHANGED <<fs, fs0, args, output_path, mappings, ri, new_paths,
                   raised, log_written, loaded, invoked, ci,
                   captions_generated, errors, results>>

\* The first run has succeeded; the same command starts again on the
\* directory it left, which holds the rename log too when the run was main's
\* (cli.py line 150).
PipelineAgain ==
    /\ entry = "pipeline"
    /\ pc = "returned"
    /\ runs = 0
    /\ \E with_log \in BOOLEAN :
          /\ fs' = IF with_log
                   THEN WriteText(fs, LogPath(In), LogText(mappings))
                   ELSE fs
          /\ log_written' = with_log
    /\ fs0' = fs'
    /\ runs' = 1
    /\ pc' = "discover_images"
    /\ images' = <<>>
    /\ mappings' = <<>>
    /\ ri' = 0
    /\ new_paths' = <<>>
    /\ UNCHANGED <<entry, dataset_name, lora_type, trigger_word, output_arg,
                   no_rename, dry_run, recursive, model, output_path, raised,
                   loaded, invoked, ci, captions_generated, errors, results>>

Init ==
    InitMain \/ InitRename \/ InitCaption \/ InitRenamePlan \/ InitPipeline

Next ==
    \/ MainSetOutput
    \/ MainDiscover
    \/ MainPlan
    \/ MainRenameOne
    \/ MainRenameRaises
    \/ MainRenamed
    \/ MainLoadModel
    \/ MainLoadFails
    \/ MainSkipLoad
    \/ MainCaptionDry
    \/ MainCaptionOne
    \/ MainCaptionFails
    \/ MainSummary
    \/ LibPlan
    \/ LibRenameOne
    \/ LibRenameDry
    \/ LibRenameRaises
    \/ LibRenameReturn
    \/ LibCaptionImage
    \/ LibCaptionImageRaises
    \/ BatchOne
    \/ BatchFails
    \/ BatchReturn
    \/ PipelineDiscover
    \/ PipelineAgain

Spec == Init /\ [][Next]_vars


(***************************************************************************)
(* The properties.                                                         *)
(***************************************************************************)
\* The plan has been computed from the list in images, which is still the
\* list the plan was computed from.
PlanOfImages ==
    \/ entry = "rename_images" /\ pc # "generate_new_names"
    \/ entry = "main" /\ pc = "rename"

\* The output directory generate_new_names was given.
PlanOutputDir == IF entry = "main" THEN output_path ELSE output_arg

\* The number a sequence of decimal digits denotes.
RECURSIVE DigitValue(_)
DigitValue(ds) ==
    IF ds = <<>> THEN 0
    ELSE 10 * DigitValue(SubSeq(ds, 1, Len(ds) - 1))
         + ((CHOOSE k \in 1..10 : DigitChars[k] = ds[Len(ds)]) - 1)

IsDigits(ds) == \A k \in 1..Len(ds) : \E d \in 1..10 : DigitChars[d] = ds[k]

\* name is "{ds_name}_{i zero-padded to 4 digits}{ext}"
IsSequencedName(name, ds_name, i, ext) ==
    LET from == Len(ds_name) + 2
        to == Len(name) - Len(ext)
        number == SubSeq(name, from, to)
    IN  /\ Len(name) >= Len(ds_name) + 1 + 4 + Len(ext)
        /\ SubSeq(name, 1, Len(ds_name)) = ds_name
        /\ name[Len(ds_name) + 1] = "_"
        /\ SubSeq(name, to + 1, Len(name)) = ext
        /\ IsDigits(number)
        /\ DigitValue(number) = i
        /\ Len(number) = 4 \/ (Len(number) > 4 /\ number[1] # "0")

\* C1: generate_new_names returns one mapping per input image, in input
\* order; the mapping at position i (from 1) keeps the i-th path as its
\* original and names the new file "{dataset_name}_{i:04d}{extension of the
\* original, lower-cased}", in output_dir when one is given and else in the
\* original's parent directory.
C1_PlanShape ==
    PlanOfImages =>
        /\ Len(mappings) = Len(images)
        /\ \A i \in 1..Len(images) :
              /\ mappings[i][1] = images[i]
              /\ IsSequencedName(mappings[i][2].name, dataset_name, i,
                                 Lower(Suffix(images[i].name)))
              /\ mappings[i][2].parent =
                    IF PlanOutputDir = NoneDir THEN images[i].parent
                    ELSE PlanOutputDir

\* A plan of two or more images from two directories, with no output
\* directory given, one of them with an upper-case extension.
C1_Witness ==
    /\ entry = "rename_images"
    /\ pc = "rename_images"
    /\ output_arg = NoneDir
    /\ Len(mappings) >= 2
    /\ \E i, j \in 1..Len(images) :
          /\ images[i].parent # images[j].parent
          /\ Suffix(images[i].name) # Lower(Suffix(images[i].name))

\* mappings is what generate_new_names returned (or still empty).
GeneratedPlan == entry # "rename_images(plan)"

\* C10: the new paths generate_new_names returns for a list of distinct
\* image paths are pairwise distinct.
C10_DistinctNewPaths ==
    GeneratedPlan =>
        \A i, j \in 1..Len(mappings) :
            i # j => mappings[i][2] # mappings[j][2]

\* A plan that sends two files of the same name, from two directories, to
\* one output directory.
C10_Witness ==
    /\ PlanOfImages
    /\ PlanOutputDir # NoneDir
    /\ \E i, j \in 1..Len(mappings) :
          /\ i # j
          /\ mappings[i][1].name = mappings[j][1].name
          /\ mappings[i][1].parent # mappings[j][1].parent


\* rename_images(mappings, dry_run=False) is running or has ended.
InRenameImages ==
    /\ ~dry_run
    /\ \/ entry = "rename_images" /\ pc \in {"rename_images", "returned", "raised"}
       \/ entry = "main" /\ pc = "rename"
       \/ entry = "main" /\ pc = "exit" /\ mappings # <<>> /\ ~log_written
       \/ entry = "main" /\ pc = "load" /\ log_written

\* rename_images(mappings, dry_run=False) has returned.
RenameReturned ==
    \/ entry = "rename_images" /\ pc = "returned"
    \/ entry = "main" /\ pc = "load" /\ log_written

\* rename_images has raised the target-exists error at mapping ri + 1.
RaisedTargetExists == InRenameImages /\ raised = "FileExistsError"

\* The state in which rename_images stops on a collision.
C3_StateAtCollision ==
    RaisedTargetExists =>
        /\ ri < Len(mappings)
        \* the mapping it stopped at: the target is there, unrelated to the
        \* original, and is the file that was there before the call
        /\ LET original == mappings[ri + 1][1]
               new == mappings[ri + 1][2]
           IN  /\ new # original
               /\ new \in DOMAIN fs /\ new \in DOMAIN fs0
               /\ fs[new] = fs0[new]
        \* the mappings before it stay renamed
        /\ \A j \in 1..ri :
              /\ mappings[j][2] \in DOMAIN fs
              /\ fs[mappings[j][2]] = fs0[mappings[j][1]]
        /\ new_paths = [j \in 1..ri |-> mappings[j][2]]
        \* no mapping from it onward is applied
        /\ \A j \in (ri + 1)..Len(mappings) :
              /\ mappings[j][1] \in DOMAIN fs
              /\ fs[mappings[j][1]] = fs0[mappings[j][1]]

\* The step rename_images takes at a mapping whose target exists and is not
\* the original itself: it raises and touches nothing.
C3_StepAtCollision ==
    (/\ InRenameImages
     /\ pc \in {"rename_images", "rename"}
     /\ ri < Len(mappings)
     /\ mappings[ri + 1][2] \in DOMAIN fs
     /\ mappings[ri + 1][2] # mappings[ri + 1][1])
    => /\ raised' = "FileExistsError"
       /\ fs' = fs
       /\ new_paths' = new_paths
       /\ ri' = ri

\* C3: when rename_images(mappings, dry_run=False) reaches a mapping whose
\* new path exists and differs from its original, it raises the
\* target-exists error there: the file at the target is left as it was, the
\* mappings before it stay renamed and none from it onward is applied.
C3_CollisionRaises == []C3_StateAtCollision /\ [][C3_StepAtCollision]_vars

\* A collision at a later mapping of the plan, after a rename was applied.
C3_Witness ==
    /\ RaisedTargetExists
    /\ ri >= 1
    /\ mappings[1][1] # mappings[1][2]
    /\ mappings[1][1] \notin DOMAIN fs

\* No target of the plan is on disk when rename_images is called.
TargetsFree == \A i \in 1..Len(mappings) : mappings[i][2] \notin DOMAIN fs0

\* C4: on a plan none of whose targets exists before the call,
\* rename_images(plan, dry_run=False) raises nothing, returns the new paths
\* in mapping order, and leaves no original at its old path and every file
\* at its new path.
C4_FreeTargetsSucceed ==
    (InRenameImages /\ TargetsFree) =>
        /\ raised = ""
        /\ RenameReturned =>
              /\ new_paths = [i \in 1..Len(mappings) |-> mappings[i][2]]
              /\ \A i \in 1..Len(mappings) :
                    /\ mappings[i][1] \notin DOMAIN fs
                    /\ mappings[i][2] \in DOMAIN fs
                    /\ fs[mappings[i][2]] = fs0[mappings[i][1]]

\* rename_images has returned from a plan of two or more mappings with
\* free targets.
C4_Witness ==
    /\ InRenameImages
    /\ TargetsFree
    /\ RenameReturned
    /\ Len(mappings) >= 2


\* C2: in dry-run mode nothing on disk changes and the model is neither
\* loaded nor invoked: rename_images(mappings, dry_run=True) renames nothing
\* and returns the planned new paths in mapping order; main with --dry-run
\* creates no output directory, renames no image and writes no rename log
\* and no caption file.
C2_DryRunTouchesNothing ==
    dry_run =>
        /\ fs = fs0
        /\ ~loaded
        /\ invoked = <<>>
        /\ ~log_written
        /\ captions_generated = 0
        /\ (entry = "rename_images" /\ pc = "returned") =>
              new_paths = [i \in 1..Len(mappings) |-> mappings[i][2]]

\* A dry run of main that ended: an output directory that does not exist
\* was asked for, renaming was on, two or more images were found.
C2_Witness ==
    /\ entry = "main"
    /\ dry_run
    /\ pc = "done"
    /\ ~no_rename
    /\ output_arg = Out
    /\ ~DirExists(fs0, Out)
    /\ Len(mappings) >= 2
    /\ ci = Len(images)

\* main has run discover_images and not yet replaced its result.
Discovered == entry = "main" /\ pc \in {"plan", "rename"}

\* C5: discover_images returns exactly the regular files with a supported
\* extension, sorted by lower-cased name, and the same sequence in whatever
\* order the operating system lists the directory, also when two of the
\* files have names that are equal ignoring case.
C5_DiscoveryDeterministic ==
    Discovered =>
        /\ {images[i] : i \in 1..Len(images)} =
              {p \in Glob(fs0, In, recursive) :
                  /\ fs0[p] # DirMark
                  /\ Lower(Suffix(p.name)) \in SUPPORTED_EXTENSIONS}
        /\ \A i, j \in 1..Len(images) : i # j => images[i] # images[j]
        /\ \A i \in 1..(Len(images) - 1) :
              ~StrLess(Lower(images[i + 1].name), Lower(images[i].name))
        /\ \A enum \in Listings(fs0, In, recursive) :
              discover_images(fs0, enum) = images

\* The images the model was invoked on and raised / returned, from the log
\* of invocations.
FailedImages == {invoked[i][1] : i \in {k \in 1..Len(invoked) : invoked[k][3] = "raise"}}
CaptionedImages == {invoked[i][1] : i \in {k \in 1..Len(invoked) : invoked[k][3] = "ok"}}

\* The images of a sequence of <<image, ...>> tuples, in order.
ImagesOf(s) == [i \in 1..Len(s) |-> s[i][1]]

\* The subsequence of the images in a set.
Only(s, S) == SelectSeq(s, LAMBDA p : p \in S)

\* C6: an image whose model invocation raises never ends the batch; every
\* image is attempted, in input order; the outcome of the batch lists the
\* images in input order, exactly those whose invocation raised as errors;
\* and a caption file is written for each of the others and for none of the
\* failed ones.
C6_ErrorIsolation ==
    /\ (entry \in {"main", "caption_batch"} /\ invoked # <<>>) =>
          /\ pc \in {"caption", "caption_batch", "done", "returned"}
          /\ raised = ""
          /\ Len(invoked) = ci
          /\ ImagesOf(invoked) = SubSeq(images, 1, ci)
    /\ (entry = "main" /\ pc = "done" /\ ~dry_run) =>
          /\ Len(invoked) = Len(images)
          /\ ImagesOf(errors) = Only(images, FailedImages)
          /\ ImagesOf(results) = Only(images, CaptionedImages)
          /\ captions_generated = Len(images) - Cardinality(FailedImages)
          /\ \A p \in FailedImages :
                CaptionPath(p) \notin {CaptionPath(q) : q \in CaptionedImages}
                => /\ CaptionPath(p) \in DOMAIN fs => CaptionPath(p) \in DOMAIN fs0
                   /\ CaptionPath(p) \in DOMAIN fs0 =>
                         fs[CaptionPath(p)] = fs0[CaptionPath(p)]
    /\ (entry = "caption_batch" /\ pc = "returned") =>
          /\ Len(results) = Len(images)
          /\ ImagesOf(results) = images
          /\ \A i \in 1..Len(results) :
                results[i][3] = ErrorCaption <=> images[i] \in FailedImages
          /\ fs = fs0

\* A run of main on three images that ended, the model having raised on
\* the second of them only.
C6_Witness ==
    /\ entry = "main"
    /\ pc = "done"
    /\ Len(images) = 3
    /\ FailedImages = {images[2]}
    /\ captions_generated = 2

\* The caption files a non-dry run of main has written when it ends.
WrittenCaptionFiles == {CaptionPath(results[i][1]) : i \in 1..Len(results)}

\* C7: after a non-dry run every captioned image has its own caption file,
\* at the image's path with the extension replaced by .txt, holding that
\* image's final caption; the run leaves as many caption files as there are
\* successful results, with renaming on or off.
C7_OneCaptionFilePerImage ==
    (entry = "main" /\ pc = "done" /\ ~dry_run) =>
        /\ \A i \in 1..Len(results) :
              /\ CaptionPath(results[i][1]) \in DOMAIN fs
              /\ fs[CaptionPath(results[i][1])] = results[i][3]
        /\ \A i, j \in 1..Len(results) :
              i # j => CaptionPath(results[i][1]) # CaptionPath(results[j][1])
        /\ Cardinality(WrittenCaptionFiles) = Len(results)


\* The model family caption_image works with in this call.
Family ==
    IF entry = "caption_batch" THEN "blip"
    ELSE IF model \in {"florence", "FLORENCE"} THEN "florence"
    ELSE "blip"

\* The i-th entry of results is the result of a call that returned.
Returned(i) == entry = "caption_batch" => invoked[i][3] = "ok"

\* The caption of the model family, normalized, before the trigger word.
NormalizedCaption(raw) ==
    IF Family = "florence"
    THEN caption_with_florence(raw, FLORENCE_INSTRUCTIONS[
             IF lora_type \in LoRATypes THEN lora_type ELSE "style"])
    ELSE caption_with_blip(raw)

\* s starts with prefix
StartsWith(s, prefix) ==
    Len(s) >= Len(prefix) /\ SubSeq(s, 1, Len(prefix)) = prefix

\* C8: when the model invocation succeeds, caption_image returns
\* "{trigger_word}, {normalized caption}" for a non-empty trigger word, and
\* the normalized caption unchanged when the trigger word is None or empty.
C8_TriggerWordPrefix ==
    \A i \in 1..Len(results) :
        Returned(i) =>
            LET caption == results[i][3]
                normalized == NormalizedCaption(results[i][2])
            IN  IF trigger_word # None /\ Len(trigger_word) > 0
                THEN /\ caption = trigger_word \o <<",", " ">> \o normalized
                     /\ StartsWith(caption, trigger_word \o <<",", " ">>)
                ELSE caption = normalized

\* caption_image has returned a caption of the structured-output family
\* with a trigger word in front.
C8_Witness ==
    /\ entry = "caption_image"
    /\ pc = "returned"
    /\ Family = "florence"
    /\ trigger_word = <<"t", "w">>
    /\ Len(results) = 1
    /\ Len(results[1][3]) > Len(trigger_word) + 2

\* C9: the instruction selector of each model family returns the family's
\* table entry for character, style and concept, the family's "style" entry
\* for any other LoRA type, and the same string on every call.
C9_InstructionTable ==
    /\ \A i \in 1..Len(invoked) :
          LET table == IF Family = "florence" THEN FLORENCE_INSTRUCTIONS
                       ELSE BLIP_PROMPTS
          IN  invoked[i][2] =
                 IF lora_type \in {"character", "style", "concept"}
                 THEN table[lora_type] ELSE table["style"]
    /\ \A i, j \in 1..Len(invoked) : invoked[i][2] = invoked[j][2]

\* caption_batch has selected the prompt twice for a LoRA type the table
\* does not hold.
C9_Witness ==
    /\ entry = "caption_batch"
    /\ lora_type \notin LoRATypes
    /\ Len(invoked) >= 2


\* main has ended at line 134: discovery found no image to process.
DiscoveryAborted == entry = "main" /\ pc = "exit" /\ images = <<>>

\* C11: a run in which discovery yields nothing to process aborts with the
\* filesystem exactly as it was when the run started, also when an output
\* directory that does not exist yet was asked for.
C11_DiscoveryAbortsUntouched == DiscoveryAborted => fs = fs0


\* The pipeline is in its second run on the directory.
SecondRun == entry = "pipeline" /\ runs = 1

\* The second run has its plan.
SecondPlan == SecondRun /\ pc \in {"rename_images", "returned", "raised"}

\* C12: on the directory a successful discover -> plan -> apply left, with
\* the output directory equal to the input directory, a second discover ->
\* plan -> apply with the same dataset name plans original = new for every
\* image, raises nothing, and leaves every image where it was.
C12_RerunIdempotent ==
    /\ SecondRun =>
          /\ raised = ""
          /\ pc # "raised"
          /\ fs = fs0
    /\ SecondPlan =>
          /\ {images[i] : i \in 1..Len(images)} =
                {p \in Glob(fs0, In, recursive) : IsSupportedImage(fs0, p)}
          /\ Len(mappings) = Len(images)
          /\ \A i \in 1..Len(mappings) :
                /\ mappings[i][1] = images[i]
                /\ mappings[i][2] = mappings[i][1]
    /\ (SecondRun /\ pc = "returned") => new_paths = images

\* The second run has returned on three images the first run renamed, one
\* of them out of a subdirectory, with the rename log in the directory.
C12_Witness ==
    /\ SecondRun
    /\ pc = "returned"
    /\ recursive
    /\ log_written
    /\ Len(new_paths) = 3
    /\ \A i \in 1..3 : new_paths[i].parent = In
    /\ Suffix(new_paths[1].name) # Suffix(new_paths[2].name)


\* str(x) of the whole raw result: of a dict with one entry, or of a bare
\* value.
StrOfRaw(raw) ==
    IF raw.isdict
    THEN <<"{">> \o Repr(<<raw.key>>) \o <<":", " ">>
         \o (IF raw.islist THEN StrOfValue(TRUE, raw.text) ELSE Repr(raw.text))
         \o <<"}">>
    ELSE StrOfValue(raw.islist, raw.text)

\* What the trigger word puts in front of the normalized caption.
TriggerPrefix ==
    IF trigger_word # None /\ Len(trigger_word) > 0
    THEN trigger_word \o <<",", " ">> ELSE <<>>

\* The results of the structured-output family, with the instruction each
\* was asked with.
FlorenceResults ==
    IF Family = "florence" /\ entry \in {"main", "caption_image"}
    THEN 1..Len(results) ELSE {}

InstructionOf(i) ==
    LET image == results[i][1]
    IN  invoked[CHOOSE k \in 1..Len(invoked) :
                   invoked[k][1] = image /\ invoked[k][3] = "ok"][2]

\* C13: for the structured-output family, when the raw result is a structure
\* keyed by instruction tags that holds the current instruction key, the
\* caption is the value for that key; in every other case (not such a
\* structure, or one that lacks the key) it is the string coercion of the
\* whole raw result; and it is stripped of leading and trailing whitespace.
C13_FlorenceNormalization ==
    \A i \in FlorenceResults :
        LET raw == results[i][2]
            caption == results[i][3]
        IN  caption = TriggerPrefix \o
               (IF raw.isdict /\ raw.key = InstructionOf(i)
                THEN Strip(StrOfValue(raw.islist, raw.text))
                ELSE Strip(StrOfRaw(raw)))


\* rename_images(mappings, dry_run=False) is running or has ended, and
\* nothing else has touched the directory since it was called.
RenameImagesCalled ==
    /\ ~dry_run
    /\ \/ /\ entry \in {"rename_images", "rename_images(plan)", "pipeline"}
          /\ pc \in {"rename_images", "returned", "raised"}
       \/ entry = "main" /\ pc = "rename"
       \/ entry = "main" /\ pc = "exit" /\ mappings # <<>> /\ ~log_written

\* The file that was at p before the call is, with its content, at q.
NowAt(p, q) == q \in DOMAIN fs /\ fs[q] = fs0[p]

NoChain ==
    \A i, j \in 1..Len(mappings) : i < j => mappings[i][2] # mappings[j][1]

Contains(text, line) ==
    \E k \in 1..(Len(text) - Len(line) + 1) :
        SubSeq(text, k, k + Len(line) - 1) = line

\* The mappings of main's plan that rename_images applied to a file.
RenamedMappings ==
    {i \in 1..ri : entry = "main" /\ ~dry_run /\ mappings[i][1] # mappings[i][2]}

\* The line create_rename_log writes for a mapping.
LogLine(m) == m[1].name \o <<" -> ">> \o m[2].name \o <<"\n">>

\* The run of main has ended.
RunEnded == entry = "main" /\ pc \in {"exit", "done"}

\* C15: in a run of main the rename log is written only after every rename
\* of the plan has succeeded, and every run that leaves an image renamed
\* leaves the rename log too, listing original -> new for every renamed
\* image, also when the run aborts on a collision after some renames.
C15_RenamedImagesLogged ==
    /\ (entry = "main" /\ log_written) =>
          /\ ri = Len(mappings)
          /\ raised # "FileExistsError"
    /\ (RunEnded /\ RenamedMappings # {}) =>
          /\ LogPath(output_path) \in DOMAIN fs
          /\ \A i \in RenamedMappings :
                Contains(fs[LogPath(output_path)], LogLine(mappings[i]))

=============================================================================
